---- MODULE Spec2Model ----
(***************************************************************************)
(* Sokoban on Ice: the ice-physics simulator (slide_robot_and_box), the    *)
(* breadth-first planner (plan_bfs), the bounded-horizon SAT encoding      *)
(* (encode_sat_plan) with its decoder (plan_sat), and the horizon drivers  *)
(* (main, compare_planners).                                               *)
(***************************************************************************)
EXTENDS Integers, Sequences, FiniteSets, TLC

(* ------------------------------------------------------------------ *)
(* Bounds of the model                                                 *)
(* ------------------------------------------------------------------ *)
NumRows == 2
NumCols == 4
MaxWalls == 1
MaxBoxes == 2
MaxDepth == 3
\* main.py runs with MAX_T = 32 and N_WORKERS = 8; the model scales both down
MAX_T == 4
N_WORKERS == 2
\* the grid of the searches that need a third row (vertical pushes)
TallRows == 3
TallCols == 3
\* the grid of the models that are read indicator by indicator
ScanRows == 2
ScanCols == 3

VARIABLES
    rows,          \* len(grid)
    cols,          \* len(grid[0])
    grid,          \* the map: cell -> character ("S", "G", "#", "B", ".")
    start,         \* the robot's start cell, from find_positions
    goal,          \* the goal cell, from find_positions
    boxes,         \* the initial box cells in scan order, from find_positions
    simRobot,      \* simulator replay: robot cell
    simBoxes,      \* simulator replay: box cells, indexed by box id (1-based)
    simPrevRobot,  \* robot cell before the last simulator step
    simPrevBoxes,  \* box cells before the last simulator step
    simDir,        \* direction index of the last simulator step (-1: none yet)
    simEncOk,      \* every simulator step so far satisfies the encoder's constraints
    encRobot,      \* constraint model: the cell whose RobotAt indicator holds at time t
    encBoxes,      \* constraint model: per box, the cell whose BoxAt indicator holds at t
    encPrevRobot,  \* the same at time t - 1
    encPrevBoxes,
    encDir,        \* the direction a with Move(t - 1, a) true (-1: t = 0)
    repRobot,      \* the model's directions replayed through the simulator: robot
    repBoxes,      \* the model's directions replayed through the simulator: boxes
    encAgree,      \* decoded model and replay agreed at every timestep so far
    RobotAt,       \* a model read indicator by indicator: the cells (r, c) whose
                   \* RobotAt[(t, r, c)] is true at the timestep t = decT
    BoxAt,         \* per box b, the cells whose BoxAt[(t, r, c, b)] is true at t
    path,          \* plan_sat: the list path after the iterations 0 .. decT
    box_paths,     \* plan_sat: the lists box_paths after the iterations 0 .. decT
    decT,          \* plan_sat: the timestep t decoded last (-1: not running)
    max_depth,     \* plan_bfs: the depth limit
    nodes,         \* plan_bfs: the State objects created and enqueued so far
    queue,         \* plan_bfs: the deque, as indices into nodes
    visited,       \* plan_bfs: the set of hashes seen
    nodes_expanded,\* plan_bfs: the count of dequeued states
    bfsPc,         \* plan_bfs: "loop", or the return taken: "found" / "none"
    bfsResult,     \* plan_bfs: the index of the returned goal State (0: None)
    depth_cut,     \* plan_bfs: some dequeued state was discarded at the depth limit
    program,       \* which driver runs: "main" (process pool) or "compare" (loop)
    check_result,  \* horizon -> what solver.check() answers for that instance
    drvSubmitted,  \* main: the horizons submitted to the pool
    drvPending,    \* main: submitted work items no worker has taken, in order
    drvRunning,    \* main: the horizons being solved by a worker
    drvEarly,      \* main: futures finished before as_completed was entered
    drvYield,      \* main: finished futures as_completed will yield, in order
    drvConsumed,   \* main: futures whose result the loop has read
    drvPc,         \* main: "submitted", "as_completed", "found", "nosolution"
    drvReported,   \* main: the horizon printed as the solution (-1: none)
    drvLate,       \* main: attempts that completed after the loop broke
    smt2_file,     \* the horizon whose constraints "sokoban_on_ice.smt2" in the
                   \* working directory holds (-1: not written)
    max_t,         \* compare_planners: the parameter max_t
    seqT,          \* compare_planners: the loop variable t
    seqTried,      \* compare_planners: the horizons encoded and solved
    seqPc,         \* compare_planners: "bfs" (plan_bfs still running), "loop",
                   \* "found", "failed", "raised"
    sat_horizon    \* compare_planners: sat_horizon (-1: none)

simVars == <<simRobot, simBoxes, simPrevRobot, simPrevBoxes, simDir, simEncOk>>

encVars == <<encRobot, encBoxes, encPrevRobot, encPrevBoxes, encDir,
             repRobot, repBoxes, encAgree, RobotAt, BoxAt, path, box_paths, decT>>

inputs == <<rows, cols, grid, start, goal, boxes>>

bfsVars == <<max_depth, nodes, queue, visited, nodes_expanded, bfsPc, bfsResult,
             depth_cut>>

drvVars == <<program, check_result, drvSubmitted, drvPending, drvRunning, drvEarly,
             drvYield, drvConsumed, drvPc, drvReported, drvLate, smt2_file,
             max_t, seqT, seqTried, seqPc, sat_horizon>>

vars == <<inputs, simVars, encVars, bfsVars, drvVars>>

(* ------------------------------------------------------------------ *)
(* The grid                                                            *)
(* ------------------------------------------------------------------ *)
Cells == (0 .. rows - 1) \X (0 .. cols - 1)

\* directions = [(-1, 0), (1, 0), (0, -1), (0, 1)]  (up, down, left, right)
directions == << <<-1, 0>>, <<1, 0>>, <<0, -1>>, <<0, 1>> >>

DirIds == 0 .. 3

Delta(a) == directions[a + 1]

Plus(p, d) == <<p[1] + d[1], p[2] + d[2]>>

Minus(p, d) == <<p[1] - d[1], p[2] - d[2]>>

\* 0 <= rr < rows and 0 <= cc < cols
InBounds(p) == 0 <= p[1] /\ p[1] < rows /\ 0 <= p[2] /\ p[2] < cols

\* out of bounds or grid[rr][cc] == '#'
Blocked(g, p) == ~InBounds(p) \/ g[p] = "#"

\* Python's tuple order on (row, col)
Less(p, q) == p[1] < q[1] \/ (p[1] = q[1] /\ p[2] < q[2])

\* the k-th cell of the row-major scan "for r in range(rows): for c in range(cols)"
ScanCell(k) == <<k \div cols, k % cols>>

RECURSIVE ScanPositions(_, _, _)
ScanPositions(g, k, acc) ==
    IF k >= rows * cols THEN acc
    ELSE LET p  == ScanCell(k)
             ch == g[p]
         IN ScanPositions(g, k + 1,
              IF ch = "S" THEN [acc EXCEPT !.start = <<p>>]
              ELSE IF ch = "G" THEN [acc EXCEPT !.goal = <<p>>]
              ELSE IF ch = "#" THEN [acc EXCEPT !.obstacles = Append(@, p)]
              ELSE IF ch = "B" THEN [acc EXCEPT !.boxes = Append(@, p)]
              ELSE acc)

\* find_positions(grid): start and goal default to (0, 0) when the map has none
find_positions(g) ==
    LET acc == ScanPositions(g, 0,
                 [start |-> <<>>, goal |-> <<>>, obstacles |-> <<>>, boxes |-> <<>>])
    IN [start     |-> IF acc.start = <<>> THEN <<0, 0>> ELSE acc.start[1],
        goal      |-> IF acc.goal = <<>> THEN <<0, 0>> ELSE acc.goal[1],
        obstacles |-> acc.obstacles,
        boxes     |-> acc.boxes]

num_boxes == Len(boxes)

\* a map file with one S, one G, walls W and boxes B on distinct cells
MapOf(s, g, W, B) ==
    [p \in Cells |-> IF p = s THEN "S"
                     ELSE IF p = g THEN "G"
                     ELSE IF p \in W THEN "#"
                     ELSE IF p \in B THEN "B"
                     ELSE "."]

SmallSubsets(S, n) == { X \in SUBSET S : Cardinality(X) <= n }

Maps ==
    UNION { UNION { UNION { { MapOf(s, g, W, B) :
                                B \in SmallSubsets(Cells \ ({s, g} \cup W), MaxBoxes) } :
                            W \in SmallSubsets(Cells \ {s, g}, MaxWalls) } :
                    g \in Cells \ {s} } :
            s \in Cells }

\* main / compare_planners: grid = load_map(...); find_positions(grid)
LoadMap ==
    /\ rows = NumRows
    /\ cols = NumCols
    /\ grid \in Maps
    /\ \E fp \in {find_positions(grid)} :
         /\ start = fp.start
         /\ goal = fp.goal
         /\ boxes = fp.boxes

(* ------------------------------------------------------------------ *)
(* The simulator: slide_robot_and_box                                  *)
(* ------------------------------------------------------------------ *)

\* box_id_at_next: the first box id (in dict order) on cell p, 0 when none
BoxIdAt(bpos, p) ==
    IF \E b \in 1 .. Len(bpos) : bpos[b] = p
    THEN CHOOSE b \in 1 .. Len(bpos) :
           /\ bpos[b] = p
           /\ \A b2 \in 1 .. (b - 1) : bpos[b2] # p
    ELSE 0

\* a variant of the inner loop that advances the box by at most one cell
SlideBox_OneCell(g, push, d, bpos, bid) ==
    LET push2 == Plus(push, d)
    IN IF Blocked(g, push2) THEN push
       ELSE IF \E ob \in 1 .. Len(bpos) : ob # bid /\ bpos[ob] = push2 THEN push
       ELSE push2

\* a variant of the inner loop without the "another box is there" test
RECURSIVE SlideBox_ThroughBoxes(_, _, _, _, _)
SlideBox_ThroughBoxes(g, push, d, bpos, bid) ==
    LET push2 == Plus(push, d)
    IN IF Blocked(g, push2) THEN push
       ELSE SlideBox_ThroughBoxes(g, push2, d, bpos, bid)

\* the inner loop: the pushed box keeps sliding until out of bounds, an
\* obstacle or another box is next
RECURSIVE SlideBox(_, _, _, _, _)
SlideBox(g, push, d, bpos, bid) ==
    LET push2 == Plus(push, d)
    IN IF Blocked(g, push2) THEN push
       ELSE IF \E ob \in 1 .. Len(bpos) : ob # bid /\ bpos[ob] = push2 THEN push
       ELSE SlideBox(g, push2, d, bpos, bid)

\* a variant of the outer loop in which the robot ends on the cell of the
\* box it met
RECURSIVE SlideRobot_OntoBox(_, _, _, _)
SlideRobot_OntoBox(g, n, d, bpos) ==
    LET rc == Plus(n, d)
    IN IF Blocked(g, rc) THEN [robot |-> n, boxes |-> bpos]
       ELSE LET bid == BoxIdAt(bpos, rc)
            IN IF bid = 0 THEN SlideRobot_OntoBox(g, rc, d, bpos)
               ELSE LET push == SlideBox(g, rc, d, bpos, bid)
                    IN [robot |-> rc,
                        boxes |-> [bpos EXCEPT ![bid] = push]]

\* a variant of the outer loop in which the robot stops where it met the
\* box, behind the cell the box was pushed from
RECURSIVE SlideRobot_BehindOrigin(_, _, _, _)
SlideRobot_BehindOrigin(g, n, d, bpos) ==
    LET rc == Plus(n, d)
    IN IF Blocked(g, rc) THEN [robot |-> n, boxes |-> bpos]
       ELSE LET bid == BoxIdAt(bpos, rc)
            IN IF bid = 0 THEN SlideRobot_BehindOrigin(g, rc, d, bpos)
               ELSE LET push == SlideBox(g, rc, d, bpos, bid)
                    IN [robot |-> n,
                        boxes |-> [bpos EXCEPT ![bid] = push]]

\* a variant of the outer loop in which the robot advances one cell and stops
SlideRobot_OneCell(g, n, d, bpos) ==
    LET rc == Plus(n, d)
    IN IF Blocked(g, rc) THEN [robot |-> n, boxes |-> bpos]
       ELSE LET bid == BoxIdAt(bpos, rc)
            IN IF bid = 0 THEN [robot |-> rc, boxes |-> bpos]
               ELSE LET push == SlideBox(g, rc, d, bpos, bid)
                    IN [robot |-> Minus(push, d),
                        boxes |-> [bpos EXCEPT ![bid] = push]]

\* a variant of the outer loop without the "static obstacle" test
RECURSIVE SlideRobot_ThroughWalls(_, _, _, _)
SlideRobot_ThroughWalls(g, n, d, bpos) ==
    LET rc == Plus(n, d)
    IN IF ~InBounds(rc) THEN [robot |-> n, boxes |-> bpos]
       ELSE LET bid == BoxIdAt(bpos, rc)
            IN IF bid = 0 THEN SlideRobot_ThroughWalls(g, rc, d, bpos)
               ELSE LET push == SlideBox(g, rc, d, bpos, bid)
                    IN [robot |-> Minus(push, d),
                        boxes |-> [bpos EXCEPT ![bid] = push]]

\* the outer loop: the robot slides; on meeting a box it pushes it and stops
\* just behind the box's final position
RECURSIVE SlideRobot(_, _, _, _)
SlideRobot(g, n, d, bpos) ==
    LET rc == Plus(n, d)
    IN IF Blocked(g, rc) THEN [robot |-> n, boxes |-> bpos]
       ELSE LET bid == BoxIdAt(bpos, rc)
            IN IF bid = 0 THEN SlideRobot(g, rc, d, bpos)
               ELSE LET push == SlideBox(g, rc, d, bpos, bid)
                    IN [robot |-> Minus(push, d),
                        boxes |-> [bpos EXCEPT ![bid] = push]]

slide_robot_and_box(g, r, a, bpos) == SlideRobot(g, r, Delta(a), bpos)

(* ------------------------------------------------------------------ *)
(* The constraint system of encode_sat_plan.  Sections 2 and 3 force   *)
(* exactly one true RobotAt / BoxAt indicator per entity and timestep, *)
(* so an assignment at time t is given by the robot's cell and one     *)
(* cell per box; Move(t, .) has exactly one true direction.            *)
(* ------------------------------------------------------------------ *)

\* any_box_at(t, r, c): Or([BoxAt[(t, r, c, b)] for b in range(num_boxes)])
any_box_at(bpos, p) == \E b \in 1 .. Len(bpos) : bpos[b] = p

\* sections 2 and 3: every entity on exactly one non-obstacle cell, and
\* AtMost one box per cell
Frame(g, r, bpos) ==
    /\ r \in Cells /\ g[r] # "#"
    /\ \A b \in 1 .. Len(bpos) : bpos[b] \in Cells /\ g[bpos[b]] # "#"
    /\ \A p \in Cells : Cardinality({b \in 1 .. Len(bpos) : bpos[b] = p}) <= 1

\* section 4: the RobotAt indicators at time 0
InitialRobot(g, s, r) ==
    /\ r = s
    /\ \A p \in Cells : (p # s /\ g[p] # "#") => r # p

\* section 4: the BoxAt indicators at time 0
InitialBoxes(g, bxs, bpos) ==
    /\ Len(bpos) = Len(bxs)
    /\ \A b \in 1 .. Len(bxs) :
         /\ bpos[b] = bxs[b]
         /\ \A p \in Cells : (p # bxs[b] /\ g[p] # "#") => bpos[b] # p

\* section 5: RobotAt[(max_t, goal)]
GoalConstraint(gl, r) == r = gl

\* "cells": the run of non-obstacle cells ahead of p in direction d
RECURSIVE RunCells(_, _, _)
RunCells(g, p, d) ==
    LET n == Plus(p, d)
    IN IF Blocked(g, n) THEN <<>> ELSE <<n>> \o RunCells(g, n, d)

\* static_slide(r0, c0, dr, dc)
RECURSIVE static_slide(_, _, _)
static_slide(g, p, d) ==
    LET n == Plus(p, d)
    IN IF Blocked(g, n) THEN p ELSE static_slide(g, n, d)

STATIC_STOP(g, p, a) == static_slide(g, p, Delta(a))

\* the loop computing (stop_x, stop_y) and slide_clear for a box on cell p
RECURSIVE PushSlide(_, _, _, _, _)
PushSlide(g, bpos, stop, d, slide_clear) ==
    LET n == Plus(stop, d)
    IN IF Blocked(g, n) THEN [stop |-> stop, slide_clear |-> slide_clear]
       ELSE PushSlide(g, bpos, n, d, slide_clear /\ ~any_box_at(bpos, n))

\* clear_prefix before the i-th cell of the run
prev_clear(bpos, cells, i) == \A j \in 1 .. (i - 1) : ~any_box_at(bpos, cells[j])

\* cond = And(move_here, prev_clear, BoxAt[(t, bx, by, b)], slide_clear)
PushCond(g, bpos, cells, i, b, d) ==
    /\ prev_clear(bpos, cells, i)
    /\ bpos[b] = cells[i]
    /\ PushSlide(g, bpos, cells[i], d, TRUE).slide_clear

\* robot_next = (bx - dr, by - dc)
robot_next(cells, i, d) == Minus(cells[i], d)

\* the clauses section 7 adds for the cell r the robot is on and the
\* direction a chosen at t, with their antecedents evaluated at time t:
\* whether the run is empty, no_box_cond with its destination, and every
\* push branch (cell i of the run, box b) whose cond holds
Branches(g, r, bpos, a) ==
    LET d     == Delta(a)
        cells == RunCells(g, r, d)
    IN [empty       |-> cells = <<>>,
        no_box_cond |-> \A i \in 1 .. Len(cells) : ~any_box_at(bpos, cells[i]),
        dst         |-> STATIC_STOP(g, r, a),
        pushes      |-> { [robot_next |-> robot_next(cells, ib[1], d),
                           b          |-> ib[2],
                           stop       |-> PushSlide(g, bpos, cells[ib[1]], d, TRUE).stop] :
                          ib \in { x \in (1 .. Len(cells)) \X (1 .. Len(bpos)) :
                                     PushCond(g, bpos, cells, x[1], x[2], d) } } ]

\* a push branch whose effect names the box's cell only, leaving the robot
\* to the frame constraints
RobotClauses_NoPushEffect(br, nr) == br.no_box_cond => nr = br.dst

\* the consequents that constrain RobotAt(t + 1, .)
RobotClauses(br, nr) ==
    /\ br.no_box_cond => nr = br.dst
    /\ \A ps \in br.pushes : nr = ps.robot_next

\* a push branch without the "stay" clauses of the boxes not pushed
BoxClause_NoStay(br, bpos, b, c) ==
    /\ br.no_box_cond => c = bpos[b]
    /\ \A ps \in br.pushes : b = ps.b => c = ps.stop

\* the consequents that constrain BoxAt(t + 1, ., b) for one box b:
\* "stay_same" of the box-free branch, the pushed box's stop cell, "stay" of
\* the other boxes
BoxClause(br, bpos, b, c) ==
    /\ br.no_box_cond => c = bpos[b]
    /\ \A ps \in br.pushes : IF b = ps.b THEN c = ps.stop ELSE c = bpos[b]

BoxClauses(br, bpos, nb) == \A b \in 1 .. Len(bpos) : BoxClause(br, bpos, b, nb[b])

\* Not(And(RobotAt, Move)) for an empty run; otherwise valid_outcome
MoveAllowed(br) == ~br.empty /\ (br.no_box_cond \/ br.pushes # {})

\* section 7 as a relation between the assignments at t and t + 1
Transition(g, r, bpos, a, nr, nb) ==
    LET br == Branches(g, r, bpos, a)
    IN /\ MoveAllowed(br)
       /\ RobotClauses(br, nr)
       /\ BoxClauses(br, bpos, nb)

\* the sequences of length n whose b-th element is drawn from allowed[b]:
\* the values BoxAt(t, ., b) can take together
RECURSIVE Assignments(_, _)
Assignments(n, allowed) ==
    IF n = 0 THEN {<<>>}
    ELSE { Append(sq, c) : sq \in Assignments(n - 1, allowed), c \in allowed[n] }

\* the assignments at t + 1 that satisfy the frame constraints and section 7
\* when the assignment at t is (r, bpos) and Move(t, a) holds
ModelSuccessors(g, r, bpos, a) ==
    UNION { IF ~MoveAllowed(br) THEN {}
            ELSE { c \in { [robot |-> nr, boxes |-> nb] :
                             nr \in {x \in Cells : RobotClauses(br, x)},
                             nb \in Assignments(Len(bpos),
                                      [b \in 1 .. Len(bpos) |->
                                         {y \in Cells : BoxClause(br, bpos, b, y)}]) } :
                     Frame(g, c.robot, c.boxes) } :
            br \in {Branches(g, r, bpos, a)} }

\* the only element of a singleton set
Only(S) == CHOOSE x \in S : TRUE

\* the assignments at time 0 allowed by sections 2, 3 and 4
InitialAssignments(g, s, bxs) ==
    { c \in { [robot |-> r, boxes |-> bpos] :
                r \in {x \in Cells : InitialRobot(g, s, x)},
                bpos \in {y \in [1 .. Len(bxs) -> Cells] : InitialBoxes(g, bxs, y)} } :
        Frame(g, c.robot, c.boxes) }

\* the assignments at time t + 1 over all models of sections 2, 3, 4 and 7,
\* from those at time t
NextLayer(g, layer) ==
    UNION { UNION { ModelSuccessors(g, c.robot, c.boxes, a) : a \in DirIds } :
            c \in layer }

\* solver.check() on the instance whose assignments at the horizon are layer:
\* a model exists when one of them also satisfies the goal constraint
solver_check(gl, layer) ==
    IF \E c \in layer : GoalConstraint(gl, c.robot) THEN "sat" ELSE "unsat"

\* solver.check() for the horizons t .. last, as a sequence, layer being the
\* assignments at time t
RECURSIVE HorizonChecks(_, _, _, _, _)
HorizonChecks(g, gl, layer, t, last) ==
    IF t > last THEN <<>>
    ELSE <<solver_check(gl, layer)>> \o
         Only({ HorizonChecks(g, gl, nxt, t + 1, last) : nxt \in {NextLayer(g, layer)} })

\* one timestep of a model: frame constraints at t + 1 and the transition
ModelStep(g, r, bpos, a, nr, nb) ==
    /\ Frame(g, nr, nb)
    /\ Transition(g, r, bpos, a, nr, nb)

(* ------------------------------------------------------------------ *)
(* The decoder: plan_sat                                               *)
(* ------------------------------------------------------------------ *)

\* one "for r: for c: if indicator: append; break" scan over the indicator
\* set S: the first true cell of every row is appended
RECURSIVE DecodeRows(_, _)
DecodeRows(S, r) ==
    IF r >= rows THEN <<>>
    ELSE LET hit == {c \in 0 .. cols - 1 : <<r, c>> \in S}
         IN (IF hit = {} THEN <<>>
             ELSE << <<r, CHOOSE c \in hit : \A c2 \in hit : c <= c2>> >>)
            \o DecodeRows(S, r + 1)

\* what plan_sat appends to path at one timestep
DecodeRobot(r) == DecodeRows({p \in Cells : p = r}, 0)

\* what plan_sat appends to box_paths[b] at one timestep
DecodeBoxes(bpos) ==
    [b \in 1 .. Len(bpos) |-> DecodeRows({p \in Cells : p = bpos[b]}, 0)]

(* ------------------------------------------------------------------ *)
(* Specification SpecSim: directions replayed through the simulator   *)
(* ------------------------------------------------------------------ *)
NoCell == <<-1, -1>>

SimIdle ==
    /\ simRobot = NoCell /\ simBoxes = <<>>
    /\ simPrevRobot = NoCell /\ simPrevBoxes = <<>>
    /\ simDir = -1 /\ simEncOk = TRUE

DecIdle ==
    /\ RobotAt = {} /\ BoxAt = <<>> /\ path = <<>> /\ box_paths = <<>> /\ decT = -1

CellsIdle ==
    /\ encRobot = NoCell /\ encBoxes = <<>>
    /\ encPrevRobot = NoCell /\ encPrevBoxes = <<>>
    /\ encDir = -1
    /\ repRobot = NoCell /\ repBoxes = <<>> /\ encAgree = TRUE

EncIdle == CellsIdle /\ DecIdle

BfsIdle ==
    /\ max_depth = 0 /\ nodes = <<>> /\ queue = <<>> /\ visited = {}
    /\ nodes_expanded = 0 /\ bfsPc = "idle" /\ bfsResult = 0 /\ depth_cut = FALSE

DrvIdle ==
    /\ program = "none" /\ check_result = <<>>
    /\ drvSubmitted = {} /\ drvPending = <<>> /\ drvRunning = {} /\ drvEarly = {}
    /\ drvYield = <<>> /\ drvConsumed = {} /\ drvPc = "idle" /\ drvReported = -1
    /\ drvLate = {} /\ smt2_file = -1
    /\ max_t = 0 /\ seqT = 0 /\ seqTried = {} /\ seqPc = "idle" /\ sat_horizon = -1

SimInit ==
    /\ LoadMap
    /\ simRobot = start /\ simBoxes = boxes
    /\ simPrevRobot = start /\ simPrevBoxes = boxes
    /\ simDir = -1
    /\ simEncOk = (/\ Frame(grid, start, boxes)
                   /\ InitialRobot(grid, start, start)
                   /\ InitialBoxes(grid, boxes, boxes))
    /\ EncIdle
    /\ BfsIdle
    /\ DrvIdle

SimStep(a) ==
    \E res \in {slide_robot_and_box(grid, simRobot, a, simBoxes)} :
       /\ simRobot' = res.robot
       /\ simBoxes' = res.boxes
       /\ simPrevRobot' = simRobot
       /\ simPrevBoxes' = simBoxes
       /\ simDir' = a
       /\ simEncOk' = (simEncOk /\ ModelStep(grid, simRobot, simBoxes, a,
                                             res.robot, res.boxes))
       /\ UNCHANGED <<inputs, encVars, bfsVars, drvVars>>

SimNext == \E a \in DirIds : SimStep(a)

SpecSim == SimInit /\ [][SimNext]_vars

(* ------------------------------------------------------------------ *)
(* Specification SpecEnc: the models of the constraint system, built  *)
(* timestep by timestep, with the simulator replaying their moves     *)
(* ------------------------------------------------------------------ *)
EncInit ==
    /\ LoadMap
    /\ \E c \in InitialAssignments(grid, start, boxes) :
         /\ encRobot = c.robot
         /\ encBoxes = c.boxes
    /\ encPrevRobot = encRobot /\ encPrevBoxes = encBoxes
    /\ encDir = -1
    /\ repRobot = start /\ repBoxes = boxes
    /\ encAgree = (DecodeRobot(encRobot) = <<start>>
                     /\ DecodeBoxes(encBoxes) = [b \in 1 .. num_boxes |-> <<boxes[b]>>])
    /\ DecIdle
    /\ SimIdle
    /\ BfsIdle
    /\ DrvIdle

EncStep(a) ==
    \E c \in ModelSuccessors(grid, encRobot, encBoxes, a) :
    \E res \in {slide_robot_and_box(grid, repRobot, a, repBoxes)} :
       /\ encRobot' = c.robot
       /\ encBoxes' = c.boxes
       /\ encPrevRobot' = encRobot
       /\ encPrevBoxes' = encBoxes
       /\ encDir' = a
       /\ repRobot' = res.robot
       /\ repBoxes' = res.boxes
       /\ encAgree' = (/\ encAgree
                       /\ DecodeRobot(c.robot) = <<res.robot>>
                       /\ DecodeBoxes(c.boxes)
                            = [b \in 1 .. num_boxes |-> <<res.boxes[b]>>])
       /\ UNCHANGED <<RobotAt, BoxAt, path, box_paths, decT>>
       /\ UNCHANGED <<inputs, simVars, bfsVars, drvVars>>

EncNext == \E a \in DirIds : EncStep(a)

SpecEnc == EncInit /\ [][EncNext]_vars

(* ------------------------------------------------------------------ *)
(* Specification SpecPlanSat: a model read indicator by indicator.    *)
(* The assignment at a timestep is the set of cells whose RobotAt     *)
(* variable is true and, per box, the set of cells whose BoxAt        *)
(* variable is true; plan_sat scans these variables timestep by       *)
(* timestep.                                                           *)
(* ------------------------------------------------------------------ *)

\* a frame constraint with Or(possible_positions) alone, without the
\* cardinality bound
RobotExclusivity_AtLeastOne(g, X) ==
    /\ \A p \in Cells : g[p] = "#" => p \notin X
    /\ Cardinality({p \in X : g[p] # "#"}) >= 1

\* section 2: Not(RobotAt) on every obstacle cell and
\* PbEq([(v, 1) for v in possible_positions], 1)
RobotExclusivity(g, X) ==
    /\ \A p \in Cells : g[p] = "#" => p \notin X
    /\ Cardinality({p \in X : g[p] # "#"}) = 1

\* a frame constraint with Or(box_positions) alone, without the cardinality
\* bound
BoxExclusivity_AtLeastOne(g, Y) ==
    /\ \A p \in Cells : g[p] = "#" => p \notin Y
    /\ Cardinality({p \in Y : g[p] # "#"}) >= 1

\* section 3, for one box: Not(BoxAt) on every obstacle cell and
\* PbEq([(v, 1) for v in box_positions], 1)
BoxExclusivity(g, Y) ==
    /\ \A p \in Cells : g[p] = "#" => p \notin Y
    /\ Cardinality({p \in Y : g[p] # "#"}) = 1

\* section 3, "No two boxes in the same cell": AtMost(*in_same_cell, 1)
in_same_cell(Ys) ==
    \A p \in Cells : Cardinality({b \in 1 .. Len(Ys) : p \in Ys[b]}) <= 1

\* section 4 on the RobotAt variables of time 0
InitialRobotAt(g, s, X) ==
    /\ s \in X
    /\ \A p \in Cells : (p # s /\ g[p] # "#") => p \notin X

\* section 4 on the BoxAt variables of time 0 of box b
InitialBoxAt(g, bxs, b, Y) ==
    /\ bxs[b] \in Y
    /\ \A p \in Cells : (p # bxs[b] /\ g[p] # "#") => p \notin Y

\* the models' assignments at time 0
InitialIndicators(g, s, bxs) ==
    { m \in { [RobotAt |-> X, BoxAt |-> Ys] :
                X  \in {x \in SUBSET Cells :
                          RobotExclusivity(g, x) /\ InitialRobotAt(g, s, x)},
                Ys \in Assignments(Len(bxs),
                         [b \in 1 .. Len(bxs) |->
                            {y \in SUBSET Cells :
                               BoxExclusivity(g, y) /\ InitialBoxAt(g, bxs, b, y)}]) } :
        in_same_cell(m.BoxAt) }

\* the antecedents of section 7 that hold at t: one record per cell r with
\* RobotAt true and per choice bpos of a true BoxAt cell for every box
TrueBranches(g, R, Bs, a) ==
    { [bpos |-> rb[2], br |-> Branches(g, rb[1], rb[2], a)] :
      rb \in R \X Assignments(Len(Bs), Bs) }

\* the consequents RobotAt[(t + 1, dst_r, dst_c)] and
\* RobotAt[(t + 1, robot_next[0], robot_next[1])] hold in X
RobotLiterals(brs, X) ==
    \A x \in brs :
        /\ x.br.no_box_cond => x.br.dst \in X
        /\ \A ps \in x.br.pushes : ps.robot_next \in X

\* for box b, the consequents of stay_same, of effect and of stay hold in Y
BoxLiterals(brs, b, Y) ==
    \A x \in brs :
        /\ x.br.no_box_cond => x.bpos[b] \in Y
        /\ \A ps \in x.br.pushes :
             IF b = ps.b THEN ps.stop \in Y ELSE x.bpos[b] \in Y

\* the assignments at t + 1 that satisfy sections 2, 3 and 7 when the
\* assignment at t is (R, Bs) and Move(t, a) is the true move variable
IndicatorSuccessors(g, R, Bs, a) ==
    UNION { IF \E x \in brs : ~MoveAllowed(x.br) THEN {}
            ELSE { m \in { [RobotAt |-> X, BoxAt |-> Ys] :
                             X  \in {x \in SUBSET Cells :
                                       RobotExclusivity(g, x) /\ RobotLiterals(brs, x)},
                             Ys \in Assignments(Len(Bs),
                                      [b \in 1 .. Len(Bs) |->
                                         {y \in SUBSET Cells :
                                            BoxExclusivity(g, y)
                                              /\ BoxLiterals(brs, b, y)}]) } :
                     in_same_cell(m.BoxAt) } :
            brs \in {TrueBranches(g, R, Bs, a)} }

\* plan_sat, iteration t = 0 on a model's assignment at time 0
PlanSatInit ==
    /\ rows = ScanRows
    /\ cols = ScanCols
    /\ grid \in Maps
    /\ \E fp \in {find_positions(grid)} :
         /\ start = fp.start
         /\ goal = fp.goal
         /\ boxes = fp.boxes
    /\ \E m \in InitialIndicators(grid, start, boxes) :
         /\ RobotAt = m.RobotAt
         /\ BoxAt = m.BoxAt
         /\ path = DecodeRows(m.RobotAt, 0)
         /\ box_paths = [b \in 1 .. num_boxes |-> DecodeRows(m.BoxAt[b], 0)]
    /\ decT = 0
    /\ CellsIdle
    /\ SimIdle
    /\ BfsIdle
    /\ DrvIdle

\* the model continues with Move(decT, a) and plan_sat's iteration
\* t = decT + 1 scans the RobotAt and BoxAt variables of that timestep
PlanSatStep(a) ==
    /\ decT < MAX_T
    /\ \E m \in IndicatorSuccessors(grid, RobotAt, BoxAt, a) :
         /\ RobotAt' = m.RobotAt
         /\ BoxAt' = m.BoxAt
         /\ path' = path \o DecodeRows(m.RobotAt, 0)
         /\ box_paths' = [b \in 1 .. num_boxes |->
                            box_paths[b] \o DecodeRows(m.BoxAt[b], 0)]
    /\ decT' = decT + 1
    /\ UNCHANGED <<encRobot, encBoxes, encPrevRobot, encPrevBoxes, encDir,
                   repRobot, repBoxes, encAgree>>
    /\ UNCHANGED <<inputs, simVars, bfsVars, drvVars>>

PlanSatNext == \E a \in DirIds : PlanSatStep(a)

SpecPlanSat == PlanSatInit /\ [][PlanSatNext]_vars

(* ------------------------------------------------------------------ *)
(* The breadth-first planner: State and plan_bfs                       *)
(* ------------------------------------------------------------------ *)

\* sorted(): insertion into an ascending sequence of cells
RECURSIVE InsertSorted(_, _)
InsertSorted(seq, p) ==
    IF seq = <<>> THEN <<p>>
    ELSE IF Less(p, Head(seq)) THEN <<p>> \o seq
    ELSE <<Head(seq)>> \o InsertSorted(Tail(seq), p)

\* a State that stores the boxes in the order given
SortCells_Unsorted(seq) == seq

RECURSIVE SortCells(_)
SortCells(seq) ==
    IF seq = <<>> THEN <<>>
    ELSE InsertSorted(SortCells(Tail(seq)), Head(seq))

\* State.__init__: parent 0 stands for None
State(robot_pos, box_positions, parent, action, ns) ==
    [robot_pos |-> robot_pos,
     boxes     |-> SortCells(box_positions),
     parent    |-> parent,
     action    |-> action,
     depth     |-> IF parent = 0 THEN 0 ELSE ns[parent].depth + 1]

\* a key that ignores the boxes, so different configurations collide
Hash_RobotOnly(st) == <<st.robot_pos>>

\* State.__hash__: hash((robot_pos, boxes)); CPython's tuple hash separates
\* every pair of configurations of grids up to 3 x 5 with up to 3 boxes, so
\* the hash value is represented by the hashed tuple
Hash(st) == <<st.robot_pos, st.boxes>>

\* State.__eq__
State_eq(st, other) == st.robot_pos = other.robot_pos /\ st.boxes = other.boxes

\* a variant that enqueues every successor
Unseen_Always(h, vis) == TRUE

\* "if new_hash not in visited"
Unseen(h, vis) == h \notin vis

\* a variant of the depth test that is off by one
DepthLimitReached_Late(depth, limit) == depth > limit

\* "if state.depth >= max_depth: continue"
DepthLimitReached(depth, limit) == depth >= limit

\* a variant that takes the newest state of the queue (queue.pop())
PopLeft_Newest(q) == [state |-> q[Len(q)], rest |-> SubSeq(q, 1, Len(q) - 1)]

\* queue.popleft()
PopLeft(q) == [state |-> Head(q), rest |-> Tail(q)]


\* a variant in which the simulator works on the parent's own box container:
\* the moved boxes are written back into the parent state
ExpandDir_WriteBack(g, a, cur, acc) ==
    Only({ IF Unseen(Hash(new_state), acc.visited)
           THEN [nodes   |-> Append([acc.nodes EXCEPT ![cur].boxes = new_state.boxes],
                                    new_state),
                 queue   |-> Append(acc.queue, Len(acc.nodes) + 1),
                 visited |-> acc.visited \cup {Hash(new_state)}]
           ELSE [acc EXCEPT !.nodes[cur].boxes = new_state.boxes] :
           new_state \in { State(res.robot, res.boxes, cur, a, acc.nodes) :
                           res \in { slide_robot_and_box(g, acc.nodes[cur].robot_pos, a,
                                                         acc.nodes[cur].boxes) } } })

\* one iteration of "for a, (dr, dc) in enumerate(directions)": the successor
\* of acc.nodes[cur] in direction a is hashed, checked against visited and,
\* when unseen, marked and appended to the queue
ExpandDir(g, a, cur, acc) ==
    Only({ IF Unseen(Hash(new_state), acc.visited)
           THEN [nodes   |-> Append(acc.nodes, new_state),
                 queue   |-> Append(acc.queue, Len(acc.nodes) + 1),
                 visited |-> acc.visited \cup {Hash(new_state)}]
           ELSE acc :
           new_state \in { State(res.robot, res.boxes, cur, a, acc.nodes) :
                           res \in { slide_robot_and_box(g, acc.nodes[cur].robot_pos, a,
                                                         acc.nodes[cur].boxes) } } })

\* the whole loop over the four directions, from direction a on
RECURSIVE Expand(_, _, _, _)
Expand(g, a, cur, acc) ==
    IF a > 3 THEN acc
    ELSE Only({ Expand(g, a + 1, cur, nxt) : nxt \in {ExpandDir(g, a, cur, acc)} })

BfsInit ==
    /\ LoadMap
    /\ max_depth \in 0 .. MaxDepth
    /\ nodes = << State(start, boxes, 0, -1, <<>>) >>
    /\ queue = <<1>>
    /\ visited = {Hash(State(start, boxes, 0, -1, <<>>))}
    /\ nodes_expanded = 0
    /\ bfsPc = "loop"
    /\ bfsResult = 0
    /\ depth_cut = FALSE
    /\ SimIdle
    /\ EncIdle
    /\ DrvIdle

\* "while queue" fails: return None
BfsExhausted ==
    /\ bfsPc = "loop"
    /\ queue = <<>>
    /\ bfsPc' = "none"
    /\ UNCHANGED <<max_depth, nodes, queue, visited, nodes_expanded, bfsResult,
                   depth_cut>>
    /\ UNCHANGED <<inputs, simVars, encVars, drvVars>>

\* the dequeued state is on the goal: reconstruct and return
BfsFoundGoal ==
    /\ bfsPc = "loop"
    /\ queue # <<>>
    /\ \E pop \in {PopLeft(queue)} :
         /\ nodes[pop.state].robot_pos = goal
         /\ queue' = pop.rest
         /\ nodes_expanded' = nodes_expanded + 1
         /\ bfsPc' = "found"
         /\ bfsResult' = pop.state
    /\ UNCHANGED <<max_depth, nodes, visited, depth_cut>>
    /\ UNCHANGED <<inputs, simVars, encVars, drvVars>>

\* the dequeued state is at the depth limit: continue
BfsDepthLimit ==
    /\ bfsPc = "loop"
    /\ queue # <<>>
    /\ \E pop \in {PopLeft(queue)} :
         /\ nodes[pop.state].robot_pos # goal
         /\ DepthLimitReached(nodes[pop.state].depth, max_depth)
         /\ queue' = pop.rest
         /\ nodes_expanded' = nodes_expanded + 1
         /\ depth_cut' = TRUE
    /\ UNCHANGED <<max_depth, nodes, visited, bfsPc, bfsResult>>
    /\ UNCHANGED <<inputs, simVars, encVars, drvVars>>

\* the dequeued state is expanded in the four directions
BfsExpand ==
    /\ bfsPc = "loop"
    /\ queue # <<>>
    /\ \E pop \in {PopLeft(queue)} :
         /\ nodes[pop.state].robot_pos # goal
         /\ ~DepthLimitReached(nodes[pop.state].depth, max_depth)
         /\ nodes_expanded' = nodes_expanded + 1
         /\ \E ex \in {Expand(grid, 0, pop.state,
                              [nodes |-> nodes, queue |-> pop.rest,
                               visited |-> visited])} :
              /\ nodes' = ex.nodes
              /\ queue' = ex.queue
              /\ visited' = ex.visited
    /\ UNCHANGED <<max_depth, bfsPc, bfsResult, depth_cut>>
    /\ UNCHANGED <<inputs, simVars, encVars, drvVars>>

BfsNext == BfsExhausted \/ BfsFoundGoal \/ BfsDepthLimit \/ BfsExpand

\* a variant of reconstruct_path without "states.reverse()"
RECURSIVE StatesFrom(_, _)
StatesFrom(ns, n) ==
    IF n = 0 THEN <<>> ELSE <<n>> \o StatesFrom(ns, ns[n].parent)

reconstruct_path_Unreversed(ns, final_state) ==
    LET states == StatesFrom(ns, final_state)
    IN IF states = <<>> THEN [robot_path |-> <<>>, box_paths |-> <<>>]
       ELSE [robot_path |-> [i \in 1 .. Len(states) |-> ns[states[i]].robot_pos],
             box_paths  |-> [b \in 1 .. Len(ns[states[1]].boxes) |->
                               [i \in 1 .. Len(states) |-> ns[states[i]].boxes[b]]]]

\* "while current: states.append(current); current = current.parent" followed
\* by "states.reverse()": the states from the initial one to n
RECURSIVE StatesTo(_, _)
StatesTo(ns, n) ==
    IF n = 0 THEN <<>> ELSE Append(StatesTo(ns, ns[n].parent), n)

\* reconstruct_path(final_state): (robot_path, box_paths), where box_paths[b]
\* lists entry b of each state's boxes tuple
reconstruct_path(ns, final_state) ==
    LET states == StatesTo(ns, final_state)
    IN IF states = <<>> THEN [robot_path |-> <<>>, box_paths |-> <<>>]
       ELSE [robot_path |-> [i \in 1 .. Len(states) |-> ns[states[i]].robot_pos],
             box_paths  |-> [b \in 1 .. Len(ns[states[1]].boxes) |->
                               [i \in 1 .. Len(states) |-> ns[states[i]].boxes[b]]]]

SpecBfs == BfsInit /\ [][BfsNext]_vars

\* plan_bfs is a sequential loop: an enabled iteration is taken
SpecBfsFair == SpecBfs /\ WF_vars(BfsNext)

\* plan_bfs on the maps of a TallRows x TallCols grid
TallInit ==
    /\ rows = TallRows
    /\ cols = TallCols
    /\ grid \in Maps
    /\ \E fp \in {find_positions(grid)} :
         /\ start = fp.start
         /\ goal = fp.goal
         /\ boxes = fp.boxes
    /\ max_depth \in 0 .. MaxDepth
    /\ nodes = << State(start, boxes, 0, -1, <<>>) >>
    /\ queue = <<1>>
    /\ visited = {Hash(State(start, boxes, 0, -1, <<>>))}
    /\ nodes_expanded = 0
    /\ bfsPc = "loop"
    /\ bfsResult = 0
    /\ depth_cut = FALSE
    /\ SimIdle
    /\ EncIdle
    /\ DrvIdle

SpecBfsTall == TallInit /\ [][BfsNext]_vars

(* ------------------------------------------------------------------ *)
(* The horizon drivers: main (process pool) and compare_planners      *)
(* (sequential loop)                                                   *)
(* ------------------------------------------------------------------ *)

\* the number of parameters of plan_sat, and the number of positional
\* arguments compare_planners passes to it
PlanSatParams == 6
PlanSatArgs == 7

\* range(n) and range(m, n)
Range(m, n) == m .. (n - 1)

\* what worker(t) returns: (t, robot_path, box_paths), reduced to t, when
\* plan_sat finds a model, and None (-1) otherwise
WorkerResult(t) == IF check_result[t] = "sat" THEN t ELSE -1

\* the orders in which a set can be iterated
Orders(S) ==
    { q \in [1 .. Cardinality(S) -> S] : \A i, j \in 1 .. Cardinality(S) :
                                             i # j => q[i] # q[j] }

\* the ascending sequence of the integers of S
RECURSIVE Ascending(_)
Ascending(S) ==
    IF S = {} THEN <<>>
    ELSE LET m == CHOOSE x \in S : \A y \in S : x <= y
         IN <<m>> \o Ascending(S \ {m})

DrvInit ==
    /\ LoadMap
    /\ \E res \in {HorizonChecks(grid, goal, InitialAssignments(grid, start, boxes), 0, MAX_T)} :
           check_result = [t \in 0 .. MAX_T |-> res[t + 1]]
    /\ program \in {"main", "compare"}
    /\ drvSubmitted = (IF program = "main" THEN Range(0, MAX_T) ELSE {})
    /\ drvPending = Ascending(drvSubmitted)
    /\ drvRunning = {} /\ drvEarly = {} /\ drvYield = <<>> /\ drvConsumed = {}
    /\ drvPc = (IF program = "main" THEN "submitted" ELSE "idle")
    /\ drvReported = -1
    /\ drvLate = {} /\ smt2_file = -1
    /\ max_t \in (IF program = "compare" THEN 0 .. MAX_T ELSE {0})
    /\ seqT = 1 /\ seqTried = {}
    /\ seqPc = (IF program = "compare" THEN "loop" ELSE "idle")
    /\ sat_horizon = -1
    /\ SimIdle
    /\ EncIdle
    /\ BfsIdle

\* a free worker process takes the oldest pending work item and runs
\* encode_sat_plan, which ends by writing the constraints to the file
\* "sokoban_on_ice.smt2"; the solver call is what remains until WorkerFinish
WorkerStart ==
    /\ drvPending # <<>>
    /\ Cardinality(drvRunning) < N_WORKERS
    /\ drvRunning' = drvRunning \cup {Head(drvPending)}
    /\ drvPending' = Tail(drvPending)
    /\ smt2_file' = Head(drvPending)
    /\ UNCHANGED <<program, check_result, drvSubmitted, drvEarly, drvYield,
                   drvConsumed, drvPc, drvReported, drvLate,
                   max_t, seqT, seqTried, seqPc, sat_horizon>>
    /\ UNCHANGED <<inputs, simVars, encVars, bfsVars>>

\* a driver that lets a future completing after the break replace the answer
WorkerFinish_Late(t) ==
    /\ t \in drvRunning
    /\ drvRunning' = drvRunning \ {t}
    /\ drvEarly' = (IF drvPc = "submitted" THEN drvEarly \cup {t} ELSE drvEarly)
    /\ drvYield' = (IF drvPc = "as_completed" THEN Append(drvYield, t) ELSE drvYield)
    /\ drvLate' = (IF drvPc = "found" THEN drvLate \cup {t} ELSE drvLate)
    /\ drvReported' = (IF drvPc = "found" /\ WorkerResult(t) # -1
                       THEN WorkerResult(t) ELSE drvReported)
    /\ UNCHANGED <<program, smt2_file, check_result, drvSubmitted, drvPending, drvConsumed,
                   drvPc, max_t, seqT, seqTried, seqPc, sat_horizon>>
    /\ UNCHANGED <<inputs, simVars, encVars, bfsVars>>

\* worker(t) returns: its future is done.  After the break nothing iterates
\* over the futures any more, so the return value is dropped
WorkerFinish(t) ==
    /\ t \in drvRunning
    /\ drvRunning' = drvRunning \ {t}
    /\ drvEarly' = (IF drvPc = "submitted" THEN drvEarly \cup {t} ELSE drvEarly)
    /\ drvYield' = (IF drvPc = "as_completed" THEN Append(drvYield, t) ELSE drvYield)
    /\ drvLate' = (IF drvPc = "found" THEN drvLate \cup {t} ELSE drvLate)
    /\ UNCHANGED <<program, smt2_file, check_result, drvSubmitted, drvPending, drvConsumed,
                   drvPc, drvReported, max_t, seqT, seqTried, seqPc, sat_horizon>>
    /\ UNCHANGED <<inputs, simVars, encVars, bfsVars>>

\* "for f in fut.as_completed(fut2t)" is entered: the futures already done are
\* yielded first, in the iteration order of a set
AsCompletedStart ==
    /\ drvPc = "submitted"
    /\ drvPc' = "as_completed"
    /\ drvYield' \in Orders(drvEarly)
    /\ drvEarly' = {}
    /\ UNCHANGED <<program, smt2_file, check_result, drvSubmitted, drvPending, drvRunning,
                   drvConsumed, drvReported, drvLate,
                   max_t, seqT, seqTried, seqPc, sat_horizon>>
    /\ UNCHANGED <<inputs, simVars, encVars, bfsVars>>

\* one iteration of the loop with "result is None": continue
MainSkip ==
    /\ drvPc = "as_completed"
    /\ drvYield # <<>>
    /\ WorkerResult(Head(drvYield)) = -1
    /\ drvYield' = Tail(drvYield)
    /\ drvConsumed' = drvConsumed \cup {Head(drvYield)}
    /\ UNCHANGED <<program, smt2_file, check_result, drvSubmitted, drvPending, drvRunning,
                   drvEarly, drvPc, drvReported, drvLate,
                   max_t, seqT, seqTried, seqPc, sat_horizon>>
    /\ UNCHANGED <<inputs, simVars, encVars, bfsVars>>

\* one iteration of the loop with a result: print it, shut the pool down
\* cancelling the pending futures, write the path, break
MainAccept ==
    /\ drvPc = "as_completed"
    /\ drvYield # <<>>
    /\ WorkerResult(Head(drvYield)) # -1
    /\ drvReported' = WorkerResult(Head(drvYield))
    /\ drvConsumed' = drvConsumed \cup {Head(drvYield)}
    /\ drvYield' = Tail(drvYield)
    /\ drvPending' = <<>>
    /\ drvPc' = "found"
    /\ UNCHANGED <<program, smt2_file, check_result, drvSubmitted, drvRunning, drvEarly, drvLate,
                   max_t, seqT, seqTried, seqPc, sat_horizon>>
    /\ UNCHANGED <<inputs, simVars, encVars, bfsVars>>

\* a driver that gives up as soon as no finished future is waiting
MainNoSolution_Early ==
    /\ drvPc = "as_completed"
    /\ drvYield = <<>>
    /\ drvPc' = "nosolution"
    /\ UNCHANGED <<program, smt2_file, check_result, drvSubmitted, drvPending, drvRunning,
                   drvEarly, drvYield, drvConsumed, drvReported, drvLate,
                   max_t, seqT, seqTried, seqPc, sat_horizon>>
    /\ UNCHANGED <<inputs, simVars, encVars, bfsVars>>

\* the loop's else branch: every future was yielded, none had a result
MainNoSolution ==
    /\ drvPc = "as_completed"
    /\ drvConsumed = drvSubmitted
    /\ drvPc' = "nosolution"
    /\ UNCHANGED <<program, smt2_file, check_result, drvSubmitted, drvPending, drvRunning,
                   drvEarly, drvYield, drvConsumed, drvReported, drvLate,
                   max_t, seqT, seqTried, seqPc, sat_horizon>>
    /\ UNCHANGED <<inputs, simVars, encVars, bfsVars>>

\* compare_planners: one iteration of "for t in range(1, max_t)".  The
\* instance is encoded; plan_sat is then called with PlanSatArgs positional
\* arguments, and a call whose argument count differs from the parameter
\* count raises TypeError out of compare_planners
SeqAttempt ==
    /\ seqPc = "loop"
    /\ seqT \in Range(1, max_t)
    /\ seqTried' = seqTried \cup {seqT}
    /\ smt2_file' = seqT
    /\ IF PlanSatArgs # PlanSatParams
       THEN /\ seqPc' = "raised"
            /\ UNCHANGED <<seqT, sat_horizon>>
       ELSE IF check_result[seqT] = "sat"
       THEN /\ sat_horizon' = seqT
            /\ seqPc' = "found"
            /\ seqT' = seqT
       ELSE /\ seqT' = seqT + 1
            /\ UNCHANGED <<sat_horizon, seqPc>>
    /\ UNCHANGED <<program, check_result, drvSubmitted, drvPending, drvRunning,
                   drvEarly, drvYield, drvConsumed, drvPc, drvReported, drvLate,
                   max_t>>
    /\ UNCHANGED <<inputs, simVars, encVars, bfsVars>>

\* compare_planners: the loop's else branch
SeqFail ==
    /\ seqPc = "loop"
    /\ seqT \notin Range(1, max_t)
    /\ seqPc' = "failed"
    /\ UNCHANGED <<program, smt2_file, check_result, drvSubmitted, drvPending, drvRunning,
                   drvEarly, drvYield, drvConsumed, drvPc, drvReported, drvLate,
                   max_t, seqT, seqTried, sat_horizon>>
    /\ UNCHANGED <<inputs, simVars, encVars, bfsVars>>

DrvNext ==
    \/ WorkerStart
    \/ \E t \in Range(0, MAX_T) : WorkerFinish(t)
    \/ AsCompletedStart
    \/ MainSkip
    \/ MainAccept
    \/ MainNoSolution
    \/ SeqAttempt
    \/ SeqFail

SpecDriver == DrvInit /\ [][DrvNext]_vars

\* main alone, on the maps of the ScanRows x ScanCols grid
MainInit ==
    /\ rows = ScanRows
    /\ cols = ScanCols
    /\ grid \in Maps
    /\ \E fp \in {find_positions(grid)} :
         /\ start = fp.start
         /\ goal = fp.goal
         /\ boxes = fp.boxes
    /\ \E res \in {HorizonChecks(grid, goal, InitialAssignments(grid, start, boxes), 0, MAX_T)} :
           check_result = [t \in 0 .. MAX_T |-> res[t + 1]]
    /\ program = "main"
    /\ drvSubmitted = Range(0, MAX_T)
    /\ drvPending = Ascending(drvSubmitted)
    /\ drvRunning = {} /\ drvEarly = {} /\ drvYield = <<>> /\ drvConsumed = {}
    /\ drvPc = "submitted"
    /\ drvReported = -1
    /\ drvLate = {} /\ smt2_file = -1
    /\ max_t = 0 /\ seqT = 1 /\ seqTried = {} /\ seqPc = "idle" /\ sat_horizon = -1
    /\ SimIdle
    /\ EncIdle
    /\ BfsIdle

MainNext ==
    \/ WorkerStart
    \/ \E t \in Range(0, MAX_T) : WorkerFinish(t)
    \/ AsCompletedStart
    \/ MainSkip
    \/ MainAccept
    \/ MainNoSolution

SpecMain == MainInit /\ [][MainNext]_vars

(* ------------------------------------------------------------------ *)
(* compare_planners as a whole: plan_bfs first, then the horizon loop *)
(* ------------------------------------------------------------------ *)

\* compare_planners(map_file, max_t) up to the call of plan_bfs, which gets
\* max_depth = max_t
CmpInit ==
    /\ LoadMap
    /\ \E res \in {HorizonChecks(grid, goal, InitialAssignments(grid, start, boxes), 0, MAX_T)} :
           check_result = [t \in 0 .. MAX_T |-> res[t + 1]]
    /\ program = "compare"
    /\ max_t \in 0 .. MAX_T
    /\ max_depth = max_t
    /\ nodes = << State(start, boxes, 0, -1, <<>>) >>
    /\ queue = <<1>>
    /\ visited = {Hash(State(start, boxes, 0, -1, <<>>))}
    /\ nodes_expanded = 0
    /\ bfsPc = "loop"
    /\ bfsResult = 0
    /\ depth_cut = FALSE
    /\ drvSubmitted = {} /\ drvPending = <<>> /\ drvRunning = {} /\ drvEarly = {}
    /\ drvYield = <<>> /\ drvConsumed = {} /\ drvPc = "idle" /\ drvReported = -1
    /\ drvLate = {} /\ smt2_file = -1
    /\ seqT = 1 /\ seqTried = {} /\ seqPc = "bfs" /\ sat_horizon = -1
    /\ SimIdle
    /\ EncIdle

\* plan_bfs has returned; its result is recorded and the horizon loop is entered
CmpStartSat ==
    /\ seqPc = "bfs"
    /\ bfsPc \in {"found", "none"}
    /\ seqPc' = "loop"
    /\ UNCHANGED <<program, smt2_file, check_result, drvSubmitted, drvPending, drvRunning,
                   drvEarly, drvYield, drvConsumed, drvPc, drvReported, drvLate,
                   max_t, seqT, seqTried, sat_horizon>>
    /\ UNCHANGED <<inputs, simVars, encVars, bfsVars>>

CmpNext == BfsNext \/ CmpStartSat \/ SeqAttempt \/ SeqFail

SpecCompare == CmpInit /\ [][CmpNext]_vars

(* ------------------------------------------------------------------ *)
(* The open 3 x 3 grid: plan_bfs with depth limits 0 .. 4 and the      *)
(* constraint system at horizons 0 .. 4, for every start and goal      *)
(* ------------------------------------------------------------------ *)

OpenInit ==
    /\ rows = 3
    /\ cols = 3
    /\ \E s \in Cells : \E g \in Cells \ {s} : grid = MapOf(s, g, {}, {})
    /\ \E fp \in {find_positions(grid)} :
         /\ start = fp.start
         /\ goal = fp.goal
         /\ boxes = fp.boxes
    /\ \E res \in {HorizonChecks(grid, goal, InitialAssignments(grid, start, boxes), 0, 4)} :
           check_result = [t \in 0 .. 4 |-> res[t + 1]]
    /\ max_depth \in 0 .. 4
    /\ nodes = << State(start, boxes, 0, -1, <<>>) >>
    /\ queue = <<1>>
    /\ visited = {Hash(State(start, boxes, 0, -1, <<>>))}
    /\ nodes_expanded = 0
    /\ bfsPc = "loop"
    /\ bfsResult = 0
    /\ depth_cut = FALSE
    /\ program = "none"
    /\ drvSubmitted = {} /\ drvPending = <<>> /\ drvRunning = {} /\ drvEarly = {}
    /\ drvYield = <<>> /\ drvConsumed = {} /\ drvPc = "idle" /\ drvReported = -1
    /\ drvLate = {} /\ smt2_file = -1
    /\ max_t = 0 /\ seqT = 0 /\ seqTried = {} /\ seqPc = "idle" /\ sat_horizon = -1
    /\ SimIdle
    /\ EncIdle

SpecOpen == OpenInit /\ [][BfsNext]_vars

(* ------------------------------------------------------------------ *)
(* Map files without an S or without a G: find_positions falls back   *)
(* to (0, 0), whatever that cell holds                                 *)
(* ------------------------------------------------------------------ *)

\* a map file with at most one S and at most one G, one of them missing
MalformedMaps ==
    UNION { UNION { UNION { { MapOf(s, g, W, B) :
                                B \in SmallSubsets(Cells \ ({s, g} \cup W), MaxBoxes) } :
                            W \in SmallSubsets(Cells \ {s, g}, MaxWalls) } :
                    g \in IF s = NoCell THEN Cells \cup {NoCell} ELSE {NoCell} } :
            s \in Cells \cup {NoCell} }

\* plan_bfs and the horizon attempts on the positions find_positions returns
\* for such a map
MalformedInit ==
    /\ rows = NumRows
    /\ cols = NumCols
    /\ grid \in MalformedMaps
    /\ \E fp \in {find_positions(grid)} :
         /\ start = fp.start
         /\ goal = fp.goal
         /\ boxes = fp.boxes
    /\ \E res \in {HorizonChecks(grid, goal, InitialAssignments(grid, start, boxes), 0, MAX_T)} :
           check_result = [t \in 0 .. MAX_T |-> res[t + 1]]
    /\ max_depth \in 0 .. MaxDepth
    /\ nodes = << State(start, boxes, 0, -1, <<>>) >>
    /\ queue = <<1>>
    /\ visited = {Hash(State(start, boxes, 0, -1, <<>>))}
    /\ nodes_expanded = 0
    /\ bfsPc = "loop"
    /\ bfsResult = 0
    /\ depth_cut = FALSE
    /\ program = "none"
    /\ drvSubmitted = {} /\ drvPending = <<>> /\ drvRunning = {} /\ drvEarly = {}
    /\ drvYield = <<>> /\ drvConsumed = {} /\ drvPc = "idle" /\ drvReported = -1
    /\ drvLate = {} /\ smt2_file = -1
    /\ max_t = 0 /\ seqT = 0 /\ seqTried = {} /\ seqPc = "idle" /\ sat_horizon = -1
    /\ SimIdle
    /\ EncIdle

SpecMalformed == MalformedInit /\ [][BfsNext]_vars

(* ------------------------------------------------------------------ *)
(* Vocabulary of the claims about one step                             *)
(* ------------------------------------------------------------------ *)

\* the cell of the first box on the run ahead of r in direction a (NoCell: none)
FirstBoxCell(g, r, bpos, a) ==
    LET cells == RunCells(g, r, Delta(a))
        hits  == {i \in 1 .. Len(cells) : any_box_at(bpos, cells[i])}
    IN IF hits = {} THEN NoCell
       ELSE cells[CHOOSE i \in hits : \A j \in hits : i <= j]

\* the cell after p in direction a is on the grid, not a Wall and holds no box
FreeAhead(g, bpos, p, a) ==
    LET n == Plus(p, Delta(a)) IN ~Blocked(g, n) /\ ~any_box_at(bpos, n)

\* the number of boxes of the gap-free run of boxes starting on cell p
RECURSIVE BoxRunLength(_, _, _, _)
BoxRunLength(g, bpos, p, a) ==
    IF Blocked(g, p) \/ ~any_box_at(bpos, p) THEN 0
    ELSE 1 + BoxRunLength(g, bpos, Plus(p, Delta(a)), a)

\* p moved k cells in direction a
Shifted(p, a, k) == <<p[1] + k * Delta(a)[1], p[2] + k * Delta(a)[2]>>

\* the last simulator step met a box that can advance
SimMetMovableBox ==
    /\ simDir # -1
    /\ FirstBoxCell(grid, simPrevRobot, simPrevBoxes, simDir) # NoCell
    /\ FreeAhead(grid, simPrevBoxes,
                 FirstBoxCell(grid, simPrevRobot, simPrevBoxes, simDir), simDir)

\* the last simulator step met a gap-free run of k >= 2 boxes with a free
\* cell after its last box
SimMetChain ==
    /\ simDir # -1
    /\ LET p == FirstBoxCell(grid, simPrevRobot, simPrevBoxes, simDir)
       IN /\ p # NoCell
          /\ LET k == BoxRunLength(grid, simPrevBoxes, p, simDir)
             IN /\ k >= 2
                /\ FreeAhead(grid, simPrevBoxes, Shifted(p, simDir, k - 1), simDir)

(* ------------------------------------------------------------------ *)
(* Vocabulary of the claims about plan_bfs: step counts measured on   *)
(* the simulator alone                                                 *)
(* ------------------------------------------------------------------ *)

\* the configurations one simulator step away from those of C
StepSet(C) ==
    { slide_robot_and_box(grid, c.robot, a, c.boxes) : c \in C, a \in DirIds }

\* the sequence of layers: layer k + 1 holds the configurations whose
\* minimum number of simulator steps from the start configuration is k
RECURSIVE Layers(_, _)
Layers(frontier, seen) ==
    IF frontier = {} THEN <<>>
    ELSE <<frontier>> \o Layers(StepSet(frontier) \ (seen \cup frontier),
                                seen \cup frontier)

StartLayers == Layers({[robot |-> start, boxes |-> boxes]}, {})

\* a configuration up to the order of its boxes
Canon(robot, bpos) == <<robot, {bpos[b] : b \in 1 .. Len(bpos)}>>

\* the minimum number of steps to a configuration with canonical form K
\* (-1: unreachable)
MinSteps(layers, K) ==
    LET ks == {k \in 1 .. Len(layers) :
                 \E c \in layers[k] : Canon(c.robot, c.boxes) = K}
    IN IF ks = {} THEN -1 ELSE (CHOOSE k \in ks : \A j \in ks : k <= j) - 1

\* the minimum number of steps to any configuration with the robot on the
\* goal cell (-1: unreachable)
MinGoalSteps(layers) ==
    LET ks == {k \in 1 .. Len(layers) : \E c \in layers[k] : c.robot = goal}
    IN IF ks = {} THEN -1 ELSE (CHOOSE k \in ks : \A j \in ks : k <= j) - 1

\* the states dequeued so far
Dequeued == (1 .. Len(nodes)) \ {queue[i] : i \in 1 .. Len(queue)}

\* the cells that are not '#'
FreeCount == Cardinality({p \in Cells : grid[p] # "#"})

RECURSIVE Binomial(_, _)
Binomial(n, k) ==
    IF k = 0 THEN 1
    ELSE IF n = 0 THEN 0
    ELSE Binomial(n - 1, k - 1) + Binomial(n - 1, k)

(* ------------------------------------------------------------------ *)
(* Claims                                                              *)
(* ------------------------------------------------------------------ *)

\* C1 (as claimed): in every model of the constraint system (frame, initial,
\* transition and goal constraints hold), the cells plan_sat decodes equal,
\* at every timestep, the cells the simulator reaches replaying the moves.
C1_Agreement == GoalConstraint(goal, encRobot) => encAgree

\* C2 (as claimed): every direction sequence whose simulator replay ends on
\* the goal cell is a model of the constraint system, with the simulator's
\* cells at every timestep.
C2_Completeness == simRobot = goal => simEncOk

\* C8 (as claimed): when the sliding robot meets a box that can advance, the
\* box moves by exactly one cell and the robot ends on the cell it vacated.
C8_OneCellPush ==
    SimMetMovableBox =>
        LET p == FirstBoxCell(grid, simPrevRobot, simPrevBoxes, simDir)
            b == BoxIdAt(simPrevBoxes, p)
        IN /\ simBoxes[b] = Shifted(p, simDir, 1)
           /\ simRobot = p

\* C8 (amended): when the sliding robot meets a box that can advance, the box
\* moves one or more cells in the direction, over free cells only, up to the
\* last cell before off-grid, a Wall or another box, and the robot ends on
\* the cell immediately behind the box's final position.
C8_SlidingPush ==
    SimMetMovableBox =>
        LET p == FirstBoxCell(grid, simPrevRobot, simPrevBoxes, simDir)
            b == BoxIdAt(simPrevBoxes, p)
        IN /\ \E k \in 1 .. (rows + cols) :
                /\ simBoxes[b] = Shifted(p, simDir, k)
                /\ \A j \in 0 .. (k - 1) :
                     FreeAhead(grid, simPrevBoxes, Shifted(p, simDir, j), simDir)
           /\ ~FreeAhead(grid, simPrevBoxes, simBoxes[b], simDir)
           /\ simRobot = Minus(simBoxes[b], Delta(simDir))

\* C8 witness: a push that moved the box two or more cells
C8_Witness ==
    /\ SimMetMovableBox
    /\ LET p == FirstBoxCell(grid, simPrevRobot, simPrevBoxes, simDir)
           b == BoxIdAt(simPrevBoxes, p)
       IN /\ simBoxes[b] # p
          /\ simBoxes[b] # Shifted(p, simDir, 1)

\* C9 (as claimed): a gap-free run of k >= 2 boxes with a free cell after it
\* shifts together by one cell.
C9_PushChain ==
    SimMetChain =>
        LET p == FirstBoxCell(grid, simPrevRobot, simPrevBoxes, simDir)
            k == BoxRunLength(grid, simPrevBoxes, p, simDir)
        IN \A j \in 0 .. (k - 1) :
             LET b == BoxIdAt(simPrevBoxes, Shifted(p, simDir, j))
             IN simBoxes[b] = Shifted(p, simDir, j + 1)

\* C9 (amended): when the robot meets a gap-free run of k >= 2 boxes with a
\* free cell after it, no box moves and the robot stops on the cell
\* immediately before the first box of the run.
C9_ChainBlocks ==
    SimMetChain =>
        LET p == FirstBoxCell(grid, simPrevRobot, simPrevBoxes, simDir)
        IN /\ simBoxes = simPrevBoxes
           /\ simRobot = Minus(p, Delta(simDir))

\* C9 witness: the robot moved against a run of two boxes that has room
\* ahead, and both boxes are where they were
C9_Witness ==
    /\ SimMetChain
    /\ simBoxes = simPrevBoxes
    /\ simRobot = Minus(FirstBoxCell(grid, simPrevRobot, simPrevBoxes, simDir),
                        Delta(simDir))

\* C10 (as claimed): in every model, when the push branch of a box holds at
\* t, the box is on its stop cell at t + 1 and the robot is on the cell
\* immediately before that stop cell.
C10_PushBranch ==
    encDir # -1 =>
        \A ps \in Branches(grid, encPrevRobot, encPrevBoxes, encDir).pushes :
            /\ encBoxes[ps.b] = ps.stop
            /\ encRobot = Minus(ps.stop, Delta(encDir))

\* C3: when plan_bfs returns a trajectory, its number of moves is the minimum
\* number of simulator steps from the start configuration to a configuration
\* with the robot on the goal, and every dequeued state has the minimum depth
\* at which its configuration is reachable.
C3_ShortestPath ==
    bfsPc \in {"found", "none"} =>
        \A layers \in {StartLayers} :
            /\ bfsPc = "found" => nodes[bfsResult].depth = MinGoalSteps(layers)
            /\ \A n \in Dequeued :
                 nodes[n].depth
                   = MinSteps(layers, Canon(nodes[n].robot_pos, nodes[n].boxes))

\* C3 witness: a returned trajectory of three moves, one of them a push
C3_Witness ==
    /\ bfsPc = "found"
    /\ nodes[bfsResult].depth = 3
    /\ nodes[bfsResult].boxes # SortCells(boxes)

\* C4: plan_bfs returns None exactly when no configuration with the robot on
\* the goal is reachable in at most max_depth steps, and None is all it
\* returns, whether the queue ran empty with or without a depth-limit discard.
C4_NoneIffUnreachable ==
    bfsPc \in {"found", "none"} =>
        \A m \in {MinGoalSteps(StartLayers)} :
            /\ bfsPc = "none" <=> (m = -1 \/ m > max_depth)
            /\ bfsPc = "none" => bfsResult = 0
            /\ bfsPc = "found" => bfsResult # 0

\* C4 witness: None returned after a depth-limit discard although the goal is
\* reachable in more steps
C4_Witness ==
    /\ bfsPc = "none"
    /\ depth_cut
    /\ MinGoalSteps(StartLayers) > max_depth

\* C5: plan_bfs terminates, and nodes_expanded never exceeds
\* (free-cell count) x C(free-cell count, box count).
C5_Termination ==
    /\ <>(bfsPc \in {"found", "none"})
    /\ [](nodes_expanded <= FreeCount * Binomial(FreeCount, num_boxes))

\* C5 witness: a terminated search that dequeued at least six states
C5_Witness ==
    /\ bfsPc \in {"found", "none"}
    /\ nodes_expanded >= 6

\* the horizons of S whose instance has a model
SatHorizons(S) == {t \in S : check_result[t] = "sat"}

\* min(S)
Least(S) == CHOOSE x \in S : \A y \in S : x <= y

\* C6 (as claimed): the horizon main reports is the smallest successful one
\* among those it dispatched, whatever the order of completion.
C6_MinimumHorizon ==
    drvPc = "found" => drvReported = Least(SatHorizons(drvSubmitted))

\* C7 (as claimed): the drivers attempt exactly the horizons 1 .. max_horizon,
\* and the sequential loop ends by accepting the smallest of them that has a
\* model, failing only when none has.
C7_HorizonRange ==
    /\ drvPc \in {"found", "nosolution"} => drvSubmitted = 1 .. MAX_T
    /\ seqPc = "failed" => seqTried = 1 .. max_t
    /\ seqPc \in {"found", "failed", "raised"} =>
          IF SatHorizons(1 .. max_t) = {} THEN seqPc = "failed"
          ELSE seqPc = "found" /\ sat_horizon = Least(SatHorizons(1 .. max_t))

\* C11 (as claimed): when the neighbour of the robot's cell in direction a is
\* a Wall or off-grid, the constraint system permits Move(t, a), and the
\* assignment at t + 1 is then the assignment at t.
C11_WallNoOp ==
    encDir # -1 =>
        \A a \in DirIds :
            Blocked(grid, Plus(encRobot, Delta(a))) =>
                ModelSuccessors(grid, encRobot, encBoxes, a)
                  = {[robot |-> encRobot, boxes |-> encBoxes]}

\* C12: a simulator step in a direction whose neighbour cell is a Wall or
\* off-grid returns the same robot cell and the same box cells.
C12_WallIdempotent ==
    (simDir # -1 /\ Blocked(grid, Plus(simPrevRobot, Delta(simDir)))) =>
        /\ simRobot = simPrevRobot
        /\ simBoxes = simPrevBoxes

\* C12 witness: a step taken against a Wall cell, with a box on the map
C12_Witness ==
    /\ simDir # -1
    /\ InBounds(Plus(simPrevRobot, Delta(simDir)))
    /\ grid[Plus(simPrevRobot, Delta(simDir))] = "#"
    /\ Len(simPrevBoxes) >= 1
    /\ simRobot = simPrevRobot

\* C13 (as claimed): on a map without boxes, plan_bfs with depth limit L finds
\* a solution exactly when the ascending horizon search finds one within L,
\* and both report the same number of moves.
C13_NoBoxSanity ==
    (boxes = <<>> /\ seqPc \in {"found", "failed", "raised"}) =>
        /\ bfsPc = "found" <=> seqPc = "found"
        /\ bfsPc = "found" => nodes[bfsResult].depth = sat_horizon

\* C13, for plan_bfs and the constraint system alone: on a map without boxes
\* plan_bfs with depth limit max_t finds a solution exactly when some horizon
\* of 1 .. max_t has a model, and its depth is the smallest such horizon.
C13_EnginesAgree ==
    (boxes = <<>> /\ bfsPc \in {"found", "none"}) =>
        /\ bfsPc = "found" <=> SatHorizons(1 .. max_t) # {}
        /\ bfsPc = "found" => nodes[bfsResult].depth = Least(SatHorizons(1 .. max_t))

\* C14 (as claimed): on the open 3 x 3 grid with start (0,0), goal (2,2) and
\* no boxes, plan_bfs with a depth limit of at most 4 returns no solution and
\* every horizon of at most 4 is unsatisfiable.
C14_OpenGridNoSolution ==
    (start = <<0, 0>> /\ goal = <<2, 2>> /\ bfsPc \in {"found", "none"}) =>
        /\ bfsPc = "none"
        /\ \A t \in 0 .. 4 : check_result[t] = "unsat"

\* C14 (amended): on the open 3 x 3 grid with start (0,0), goal (2,2) and no
\* boxes, plan_bfs returns a 2-move trajectory for the depth limits 2 .. 4 and
\* no solution for the depth limits 0 and 1; the horizons 2 and 4 are
\* satisfiable and the horizons 0, 1 and 3 are not.
C14_OpenGridTwoMoves ==
    (start = <<0, 0>> /\ goal = <<2, 2>> /\ bfsPc \in {"found", "none"}) =>
        /\ bfsPc = "none" <=> max_depth < 2
        /\ bfsPc = "found" => nodes[bfsResult].depth = 2
        /\ \A t \in 0 .. 4 : check_result[t] = "sat" <=> t \in {2, 4}

\* C14 witness: the scenario solved under the depth limit 4
C14_Witness ==
    /\ start = <<0, 0>> /\ goal = <<2, 2>>
    /\ rows = 3 /\ cols = 3
    /\ max_depth = 4
    /\ bfsPc = "found"
    /\ nodes[bfsResult].robot_pos = <<2, 2>>

\* the start cell, the goal cell or a box cell is outside the grid or a Wall
InvalidInput ==
    \/ Blocked(grid, start)
    \/ Blocked(grid, goal)
    \/ \E b \in 1 .. Len(boxes) : Blocked(grid, boxes[b])

\* C15 (as claimed): on an invalid input plan_bfs and the horizon attempts
\* report an error before any search or encoding step, never a trajectory
\* and never the outcome of an ordinary "no solution".
C15_InvalidInputRejected ==
    InvalidInput =>
        /\ nodes_expanded = 0
        /\ bfsPc \notin {"found", "none"}
        /\ bfsPc # "loop" => \A t \in 0 .. MAX_T : check_result[t] \notin {"sat", "unsat"}

\* what plan_bfs returns when it returns a trajectory
Returned == reconstruct_path(nodes, bfsResult)

\* the box cells of entry i of the returned trajectory, by box index
BoxesAt(out, i) == [b \in 1 .. Len(out.box_paths) |-> out.box_paths[b][i]]

\* C16: a returned trajectory starts with the initial configuration, ends
\* with the robot on the goal, and each configuration is followed by the
\* configuration (robot cell, box cells) one simulator step produces from it.
C16_WellFormedTrajectory ==
    bfsPc = "found" =>
        \A out \in {Returned} :
            LET n == Len(out.robot_path)
            IN /\ n >= 1
               /\ out.robot_path[1] = start
               /\ BoxesAt(out, 1) = boxes
               /\ out.robot_path[n] = goal
               /\ \A b \in 1 .. Len(out.box_paths) : Len(out.box_paths[b]) = n
               /\ \A i \in 1 .. (n - 1) :
                    \E a \in DirIds :
                       LET res == slide_robot_and_box(grid, out.robot_path[i], a,
                                                      BoxesAt(out, i))
                       IN Canon(res.robot, res.boxes)
                            = Canon(out.robot_path[i + 1], BoxesAt(out, i + 1))

\* C16 witness: a returned trajectory of three moves in which a box moved
C16_Witness ==
    /\ bfsPc = "found"
    /\ Len(Returned.robot_path) = 4
    /\ BoxesAt(Returned, 4) # BoxesAt(Returned, 1)

\* C17 (as claimed): in the returned box_paths, index b follows one box: each
\* entry is followed by what one simulator step makes of it box by box, so a
\* box's path changes only when that box is pushed.
C17_StableBoxIdentity ==
    bfsPc = "found" =>
        \A out \in {Returned} :
            \A i \in 1 .. (Len(out.robot_path) - 1) :
                \E a \in DirIds :
                   LET res == slide_robot_and_box(grid, out.robot_path[i], a,
                                                  BoxesAt(out, i))
                   IN /\ res.robot = out.robot_path[i + 1]
                      /\ res.boxes = BoxesAt(out, i + 1)

\* C18: in every configuration the simulator reaches from a valid initial
\* configuration, no two boxes share a cell and neither the robot nor a box
\* is on a Wall or outside the grid.
C18_ConfigInvariant ==
    /\ ~Blocked(grid, simRobot)
    /\ \A b \in 1 .. Len(simBoxes) : ~Blocked(grid, simBoxes[b])
    /\ \A b1, b2 \in 1 .. Len(simBoxes) : b1 # b2 => simBoxes[b1] # simBoxes[b2]

\* C18 witness: a step that pushed one of two boxes, on a map with a Wall
C18_Witness ==
    /\ simDir # -1
    /\ Len(simBoxes) = 2
    /\ simBoxes # simPrevBoxes
    /\ \E p \in Cells : grid[p] = "#"

\* C19 (as claimed): concurrent horizon attempts share no mutable state:
\* nothing an attempt has written is overwritten by another attempt while
\* the first is still running.
C19_AttemptIsolation ==
    [][(smt2_file # -1 /\ smt2_file \in drvRunning) => smt2_file' = smt2_file]_vars

\* C20: once the driver has accepted a solution and cancelled the pool, no
\* later step changes the reported horizon, consumes another result or leaves
\* the accepted state: a result completing afterwards is dropped.
C20_LateResultsDiscarded ==
    [][drvPc = "found" => /\ drvPc' = "found"
                          /\ drvReported' = drvReported
                          /\ drvConsumed' = drvConsumed]_vars

\* an attempt holding a different solution has completed after the acceptance
C20_Witness ==
    /\ drvPc = "found"
    /\ \E t \in drvLate : WorkerResult(t) # -1 /\ WorkerResult(t) # drvReported

\* C21: a dequeued non-goal state whose depth equals max_depth is discarded
\* without expansion: no state has a parent at the depth limit, no state
\* deeper than max_depth is ever created, and a returned trajectory has at
\* most max_depth moves.
C21_DepthLimit ==
    /\ \A n \in 1 .. Len(nodes) :
         /\ nodes[n].depth <= max_depth
         /\ nodes[n].parent # 0 => nodes[nodes[n].parent].depth < max_depth
    /\ bfsPc = "found" => Len(reconstruct_path(nodes, bfsResult).robot_path) - 1 <= max_depth

\* C21 witness: a state at the depth limit was discarded and the trajectory
\* returned afterwards has exactly max_depth moves
C21_Witness ==
    /\ bfsPc = "found"
    /\ depth_cut
    /\ max_depth >= 2
    /\ Len(reconstruct_path(nodes, bfsResult).robot_path) - 1 = max_depth

\* C22: for every model whose robot is on the goal at horizon T, plan_sat has
\* appended exactly T + 1 cells to path and to every box's list, and the last
\* entry of each is the one cell whose indicator is true at T (every earlier
\* entry was the last one when its timestep was scanned).
C22_CompleteDecoding ==
    (decT # -1 /\ goal \in RobotAt) =>
        /\ Len(path) = decT + 1
        /\ RobotAt = {path[decT + 1]}
        /\ Len(box_paths) = num_boxes
        /\ \A b \in 1 .. num_boxes :
             /\ Len(box_paths[b]) = decT + 1
             /\ BoxAt[b] = {box_paths[b][decT + 1]}

\* C22 witness: a model of horizon 3 with the robot on the goal in which a
\* box was pushed
C22_Witness ==
    /\ decT = 3
    /\ goal \in RobotAt
    /\ num_boxes >= 1
    /\ Len(box_paths[1]) = 4
    /\ box_paths[1][4] # box_paths[1][1]

\* C25: in every model, at every timestep, exactly one RobotAt variable is
\* true and its cell is not a Wall, for each box exactly one BoxAt variable is
\* true and its cell is not a Wall, and no cell holds two boxes.
C25_FrameConstraints ==
    decT # -1 =>
        /\ Cardinality(RobotAt) = 1
        /\ \A p \in RobotAt : grid[p] # "#"
        /\ \A b \in 1 .. Len(BoxAt) :
             /\ Cardinality(BoxAt[b]) = 1
             /\ \A p \in BoxAt[b] : grid[p] # "#"
        /\ \A b1, b2 \in 1 .. Len(BoxAt) : b1 # b2 => BoxAt[b1] \cap BoxAt[b2] = {}

\* C25 witness: the second timestep of a model with two boxes on a map with
\* a Wall, one of the boxes pushed
C25_Witness ==
    /\ decT >= 2
    /\ Len(BoxAt) = 2
    /\ \E p \in Cells : grid[p] = "#"
    /\ \E b \in 1 .. 2 : box_paths[b][1] \notin BoxAt[b]

\* the states plan_bfs has dequeued and expanded in the four directions
Expanded ==
    {n \in Dequeued : nodes[n].robot_pos # goal /\ nodes[n].depth < max_depth}

\* the canonical key of the successor of state n in direction a
SuccessorKey(n, a) ==
    Only({ Canon(res.robot, res.boxes) :
           res \in {slide_robot_and_box(grid, nodes[n].robot_pos, a, nodes[n].boxes)} })

\* C23: a successor is enqueued exactly when its canonical key is unseen: no
\* two enqueued states have the same key, visited holds exactly the keys of
\* the enqueued states, and the key of every successor of an expanded state
\* belongs to an enqueued state (nothing unseen was dropped).
C23_VisitedDeduplication ==
    /\ \A n1, n2 \in 1 .. Len(nodes) :
         n1 # n2 => Canon(nodes[n1].robot_pos, nodes[n1].boxes)
                      # Canon(nodes[n2].robot_pos, nodes[n2].boxes)
    /\ visited = {Hash(nodes[n]) : n \in 1 .. Len(nodes)}
    /\ \A n \in Expanded : \A a \in DirIds :
         \E m \in 1 .. Len(nodes) :
            Canon(nodes[m].robot_pos, nodes[m].boxes) = SuccessorKey(n, a)

\* C23 witness: a successor that moved a box was not enqueued because its key
\* had been enqueued from another state, and a successor with the same robot
\* cell but other box cells was enqueued
C23_Witness ==
    /\ \E n \in Expanded : \E a \in DirIds : \E m \in 1 .. Len(nodes) :
         /\ Canon(nodes[m].robot_pos, nodes[m].boxes) = SuccessorKey(n, a)
         /\ nodes[m].parent # n
         /\ m # n
         /\ nodes[m].boxes # nodes[n].boxes
    /\ \E m1, m2 \in 1 .. Len(nodes) :
         /\ nodes[m1].robot_pos = nodes[m2].robot_pos
         /\ nodes[m1].boxes # nodes[m2].boxes

\* the lists that are permutations of the list seq
PermutationsOf(seq) ==
    { [i \in 1 .. Len(seq) |-> seq[q[i]]] : q \in Orders(1 .. Len(seq)) }

\* the box lists plan_bfs builds States from: the initial list and the list
\* the simulator returned for every state expanded so far and every direction
BoxLists ==
    {<<start, boxes>>} \cup
    { <<res.robot, res.boxes>> :
      res \in { slide_robot_and_box(grid, nodes[n].robot_pos, a, nodes[n].boxes) :
                n \in Expanded, a \in DirIds } }

\* C24: States built from the same robot cell and from box lists that are
\* permutations of each other are equal and have the same hash.
C24_OrderIndependentKey ==
    \A rb \in BoxLists : \A perm \in PermutationsOf(rb[2]) :
        LET s1 == State(rb[1], rb[2], 0, -1, <<>>)
            s2 == State(rb[1], perm, 0, -1, <<>>)
        IN State_eq(s1, s2) /\ Hash(s1) = Hash(s2)

\* C24 witness: the simulator returned two boxes in an order that is not the
\* sorted one
C24_Witness ==
    \E rb \in BoxLists : Len(rb[2]) = 2 /\ Less(rb[2][2], rb[2][1])

\* the number of branches of section 7 whose precondition holds for the
\* robot on cell r, the boxes on bpos and direction a (an empty run has no
\* branch)
SatisfiedBranches(g, r, bpos, a) ==
    LET br == Branches(g, r, bpos, a)
    IN IF br.empty THEN 0
       ELSE (IF br.no_box_cond THEN 1 ELSE 0) + Cardinality(br.pushes)

\* C26 (as claimed): for the configuration of every timestep of a model and
\* every direction, exactly one branch (box-free run, or push of the first
\* box of the run) has its precondition satisfied, and the constraint system
\* has a successor assignment for that direction.
C26_ExactlyOneBranch ==
    encDir # -1 =>
        \A a \in DirIds :
            /\ SatisfiedBranches(grid, encRobot, encBoxes, a) = 1
            /\ ModelSuccessors(grid, encRobot, encBoxes, a) # {}

\* the boxes whose cell differs between two assignments
ChangedBoxes(before, after) == {b \in 1 .. Len(before) : after[b] # before[b]}

\* C27: between t and t + 1 of a model, no box changes cell when the robot's
\* run is box-free, only the box of the satisfied push branch can change cell
\* when a box is pushed, and so at most one box changes cell per timestep.
C27_FrameEffect ==
    encDir # -1 =>
        \A br \in {Branches(grid, encPrevRobot, encPrevBoxes, encDir)} :
            /\ br.no_box_cond => encBoxes = encPrevBoxes
            /\ \A ps \in br.pushes : ChangedBoxes(encPrevBoxes, encBoxes) \subseteq {ps.b}
            /\ Cardinality(ChangedBoxes(encPrevBoxes, encBoxes)) <= 1

\* C27 witness: a timestep of a model with two boxes in which one box was
\* pushed to another cell and the other kept its cell
C27_Witness ==
    /\ encDir # -1
    /\ Len(encBoxes) = 2
    /\ Cardinality(ChangedBoxes(encPrevBoxes, encBoxes)) = 1

\* the last simulator step met a box that cannot advance: the cell after it
\* is off-grid, a Wall or holds another box
SimMetStuckBox ==
    /\ simDir # -1
    /\ FirstBoxCell(grid, simPrevRobot, simPrevBoxes, simDir) # NoCell
    /\ ~FreeAhead(grid, simPrevBoxes,
                  FirstBoxCell(grid, simPrevRobot, simPrevBoxes, simDir), simDir)

\* C28: when the sliding robot meets a box that cannot advance, the step
\* leaves every box where it was and the robot ends on the cell immediately
\* before that box, which holds no box.
C28_StuckBox ==
    SimMetStuckBox =>
        /\ simBoxes = simPrevBoxes
        /\ simRobot = Minus(FirstBoxCell(grid, simPrevRobot, simPrevBoxes, simDir),
                            Delta(simDir))
        /\ ~any_box_at(simBoxes, simRobot)

\* C28 witness: the robot slid at least one cell and met a box held in place
\* by another box
C28_Witness ==
    /\ SimMetStuckBox
    /\ simRobot # simPrevRobot
    /\ any_box_at(simPrevBoxes,
                  Plus(FirstBoxCell(grid, simPrevRobot, simPrevBoxes, simDir),
                       Delta(simDir)))

\* C29: in one simulator step at most one box changes position, only the
\* first box the robot meets can be that box, and after meeting a box the
\* robot is on the cell immediately behind that box's final position: it
\* slides no further.
C29_SinglePush ==
    simDir # -1 =>
        /\ Cardinality(ChangedBoxes(simPrevBoxes, simBoxes)) <= 1
        /\ \A p \in {FirstBoxCell(grid, simPrevRobot, simPrevBoxes, simDir)} :
             IF p = NoCell THEN simBoxes = simPrevBoxes
             ELSE \A b \in {BoxIdAt(simPrevBoxes, p)} :
                    /\ ChangedBoxes(simPrevBoxes, simBoxes) \subseteq {b}
                    /\ simRobot = Minus(simBoxes[b], Delta(simDir))

\* C29 witness: with two boxes on the map, the robot slid, pushed one box two
\* or more cells and stopped behind it
C29_Witness ==
    /\ simDir # -1
    /\ Len(simBoxes) = 2
    /\ \E b \in ChangedBoxes(simPrevBoxes, simBoxes) :
         /\ simBoxes[b] # Plus(simPrevBoxes[b], Delta(simDir))
         /\ simRobot = Minus(simBoxes[b], Delta(simDir))

\* the last cell a box on cell p reaches in direction a before the grid edge,
\* a Wall or another box
RECURSIVE LastFreeCell(_, _, _, _)
LastFreeCell(g, bpos, p, a) ==
    IF FreeAhead(g, bpos, p, a) THEN LastFreeCell(g, bpos, Plus(p, Delta(a)), a)
    ELSE p

\* C30 (as claimed): when the robot pushes a box, the simulator places it on
\* the last cell before the grid edge, a Wall or another box, and the
\* constraint system has a successor assignment with the boxes on the same
\* cells.
C30_BoxSlidesUntilBlocked ==
    SimMetMovableBox =>
        \A p \in {FirstBoxCell(grid, simPrevRobot, simPrevBoxes, simDir)} :
            /\ simBoxes = [simPrevBoxes EXCEPT ![BoxIdAt(simPrevBoxes, p)] =
                             LastFreeCell(grid, simPrevBoxes, p, simDir)]
            /\ \E c \in ModelSuccessors(grid, simPrevRobot, simPrevBoxes, simDir) :
                  c.boxes = simBoxes

\* state n was created as the successor of its parent, as the parent is
\* stored now, in direction nodes[n].action
ChildOfParent(n) ==
    \A res \in { slide_robot_and_box(grid, nodes[nodes[n].parent].robot_pos,
                                     nodes[n].action, nodes[nodes[n].parent].boxes) } :
        /\ nodes[n].robot_pos = res.robot
        /\ nodes[n].boxes = SortCells(res.boxes)

\* C31: computing a successor leaves the parent State and the grid unchanged:
\* no step of plan_bfs changes the grid or a State created earlier, and every
\* State with a parent is the simulator's successor of that parent's stored
\* configuration, so the four successors of a node come from one
\* configuration.
C31_PureStep ==
    /\ [](\A n \in 1 .. Len(nodes) : nodes[n].parent # 0 => ChildOfParent(n))
    /\ [][/\ grid' = grid
          /\ Len(nodes') >= Len(nodes)
          /\ \A n \in 1 .. Len(nodes) : nodes'[n] = nodes[n]]_vars

\* C31 witness: a state has two successors, the one created first with a
\* pushed box and a later one with the parent's boxes
C31_Witness ==
    \E n1, n2 \in 1 .. Len(nodes) :
        /\ nodes[n1].parent # 0
        /\ nodes[n2].parent = nodes[n1].parent
        /\ nodes[n1].action < nodes[n2].action
        /\ nodes[n1].boxes # nodes[nodes[n1].parent].boxes
        /\ nodes[n2].boxes = nodes[nodes[n1].parent].boxes

\* C32: a simulator step is idempotent: repeating the direction of the last
\* step from the configuration it produced returns that configuration, the
\* robot's next cell being off-grid, a Wall, or a box that cannot advance.
C32_StepIdempotent ==
    simDir # -1 =>
        /\ slide_robot_and_box(grid, simRobot, simDir, simBoxes)
             = [robot |-> simRobot, boxes |-> simBoxes]
        /\ \A n \in {Plus(simRobot, Delta(simDir))} :
             \/ Blocked(grid, n)
             \/ any_box_at(simBoxes, n) /\ ~FreeAhead(grid, simBoxes, n, simDir)

\* C32 witness: the last step moved the robot and pushed a box two or more
\* cells
C32_Witness ==
    /\ simDir # -1
    /\ simRobot # simPrevRobot
    /\ \E b \in ChangedBoxes(simPrevBoxes, simBoxes) :
         simBoxes[b] # Plus(simPrevBoxes[b], Delta(simDir))
    /\ simRobot # Plus(simPrevRobot, Delta(simDir))

\* C33: in every configuration the simulator reaches from an initial
\* configuration whose robot is not on a box cell, the robot's cell holds no
\* box.
C33_RobotBoxSeparation ==
    ~any_box_at(boxes, start) => ~any_box_at(simBoxes, simRobot)

\* C33 witness: after a push the robot stands on the cell the pushed box held
\* before the step, on a map with two boxes
C33_Witness ==
    /\ simDir # -1
    /\ Len(simBoxes) = 2
    /\ ~any_box_at(boxes, start)
    /\ any_box_at(simPrevBoxes, simRobot)

\* C34: the robot and box cells at time t together with the direction chosen
\* at t admit at most one assignment of robot and box cells at time t + 1, at
\* every timestep of every model.
C34_DeterministicTransition ==
    \A a \in DirIds : Cardinality(ModelSuccessors(grid, encRobot, encBoxes, a)) <= 1

\* C34 witness: at a timestep after the first, a direction whose push branch
\* holds has exactly one successor assignment, with two boxes on the map
C34_Witness ==
    /\ encDir # -1
    /\ Len(encBoxes) = 2
    /\ \E a \in DirIds :
         /\ Branches(grid, encRobot, encBoxes, a).pushes # {}
         /\ Cardinality(ModelSuccessors(grid, encRobot, encBoxes, a)) = 1

\* the depths of the states in the queue, front first
QueueDepths == [i \in 1 .. Len(queue) |-> nodes[queue[i]].depth]

\* C35: the depths of the states plan_bfs dequeues never decrease over the
\* run, and at any moment the depths in the queue are in non-decreasing order
\* and differ by at most 1.
C35_FifoDepthOrder ==
    /\ [](\A i, j \in 1 .. Len(queue) :
            i <= j => /\ QueueDepths[i] <= QueueDepths[j]
                      /\ QueueDepths[j] - QueueDepths[i] <= 1)
    /\ [][nodes_expanded' # nodes_expanded =>
            \A n \in Dequeued : \A m \in Dequeued' \ Dequeued :
                nodes[n].depth <= nodes[m].depth]_vars

\* C35 witness: three or more states have been dequeued and the queue holds
\* states of two depths
C35_Witness ==
    /\ Cardinality(Dequeued) >= 3
    /\ \E i, j \in 1 .. Len(queue) : QueueDepths[i] # QueueDepths[j]

\* C36: main reports at most one solution per run (a reported horizon is
\* never replaced and the outcome, once reached, is final), and it reports
\* "No solution within horizon" only when every submitted attempt has
\* completed, has been read, and had no model.
C36_DriverOutcome ==
    /\ [](drvPc = "nosolution" =>
            /\ drvReported = -1
            /\ drvPending = <<>> /\ drvRunning = {}
            /\ drvConsumed = drvSubmitted
            /\ \A t \in drvSubmitted : WorkerResult(t) = -1)
    /\ [](drvReported # -1 => drvPc = "found")
    /\ [][/\ drvReported # -1 => drvReported' = drvReported
          /\ drvPc \in {"found", "nosolution"} => drvPc' = drvPc]_vars

\* C36 witness: "No solution" has been reported after all MAX_T attempts, on
\* a map with a box
C36_Witness ==
    /\ drvPc = "nosolution"
    /\ Cardinality(drvConsumed) = MAX_T
    /\ \E p \in Cells : grid[p] = "B"

====
